---------------------------- MODULE Spec2Model ----------------------------
(***************************************************************************)
(* Model of tools/measure_validator.py: the duration expression parser     *)
(* (parse_duration), the per-measure validator (validate_measure) and the  *)
(* whole-score fold (validate_all_measures).                               *)
(*                                                                         *)
(* Python values are tagged records: [type |-> "NoneType"],                *)
(* [type |-> "str", s |-> ...], [type |-> "list", items |-> ...],          *)
(* [type |-> "int", v |-> ...], [type |-> "dict", d |-> ...].  The score,  *)
(* measure and event dicts are TLA+ records whose optional keys may be     *)
(* missing from their DOMAIN.  A Python string is a sequence of lexemes:   *)
(* the separator characters " ", ",", "*", "/" and whole words; two word   *)
(* lexemes are never adjacent.  A raised exception is [exc |-> name].      *)
(***************************************************************************)
EXTENDS Integers, Sequences, FiniteSets, TLC

VARIABLES pc, call, ret, measures, time_signature, current_time_signature,
          i, results, all_valid

vars == <<pc, call, ret, measures, time_signature, current_time_signature,
          i, results, all_valid>>

---------------------------------------------------------------------------
(* Bounds of the model *)

\* longest measure sequence of a score
MaxMeasures == 3

\* integer literals int() is applied to lie in -MaxInt..MaxInt
MaxInt == 12

---------------------------------------------------------------------------
(* Python values *)

PyNone == [type |-> "NoneType"]
PyStr(s) == [type |-> "str", s |-> s]
PyList(items) == [type |-> "list", items |-> items]
PyInt(v) == [type |-> "int", v |-> v]
PyDict(d) == [type |-> "dict", d |-> d]

Exc(name) == [exc |-> name]
IsExc(r) == "exc" \in DOMAIN r

\* d.get(key, default) on a dict modelled as a record
Get(d, key, default) == IF key \in DOMAIN d THEN d[key] ELSE default

---------------------------------------------------------------------------
(* fractions.Fraction: exact rationals in lowest terms, den > 0 *)

Abs(n) == IF n < 0 THEN -n ELSE n

RECURSIVE GCD(_, _)
GCD(a, b) == IF b = 0 THEN a ELSE GCD(b, a % b)

\* Fraction(n, d); Fraction(n, 0) raises ZeroDivisionError
Fraction(n, d) ==
    IF d = 0 THEN Exc("ZeroDivisionError")
    ELSE LET g == GCD(Abs(n), Abs(d))
             sgn == IF d < 0 THEN -1 ELSE 1
         IN  [num |-> sgn * (n \div g), den |-> Abs(d) \div g]

FrAdd(a, b) == Fraction(a.num * b.den + b.num * a.den, a.den * b.den)
FrSub(a, b) == Fraction(a.num * b.den - b.num * a.den, a.den * b.den)
FrMulInt(k, a) == Fraction(k * a.num, a.den)
FrAbs(a) == [num |-> Abs(a.num), den |-> a.den]
FrLeq(a, b) == a.num * b.den <= b.num * a.den

RECURSIVE IsPow2(_)
IsPow2(n) == n = 1 \/ (n > 1 /\ n % 2 = 0 /\ IsPow2(n \div 2))

\* float(fraction): the double nearest to the fraction.  The double equals
\* the fraction exactly when the denominator is a power of two (all
\* numerators here are far below 2^53); otherwise it is a rounded value.
Float(a) == [nearest |-> a, exact |-> IsPow2(a.den)]

---------------------------------------------------------------------------
(* str operations on lexeme sequences *)

\* str.lower() of one word lexeme
LowerWord(w) ==
    CASE w = "QUARTER" -> "quarter"
      [] w = "Quarter" -> "quarter"
      [] w = "HALF"    -> "half"
      [] w = "Eighth"  -> "eighth"
      [] w = "DOTTED"  -> "dotted"
      [] w = "SEVEN"   -> "seven"
      [] w = "Three"   -> "three"
      [] w = "True"    -> "true"
      [] OTHER         -> w

\* lower() leaving the string as it is
Lower_identity(s) == s

Lower(s) == [k \in 1..Len(s) |-> LowerWord(s[k])]

RECURSIVE Strip(_)
Strip(s) ==
    IF s = <<>> THEN s
    ELSE IF Head(s) = " " THEN Strip(Tail(s))
    ELSE IF s[Len(s)] = " " THEN Strip(SubSeq(s, 1, Len(s) - 1))
    ELSE s

Contains(s, sep) == \E k \in 1..Len(s) : s[k] = sep

\* s.split(sep): the pieces between the occurrences of sep, empties kept
RECURSIVE Split(_, _)
Split(s, sep) ==
    IF ~Contains(s, sep) THEN <<s>>
    ELSE LET k == CHOOSE j \in 1..Len(s) :
                      s[j] = sep /\ \A m \in 1..(j - 1) : s[m] # sep
         IN  <<SubSeq(s, 1, k - 1)>> \o Split(SubSeq(s, k + 1, Len(s)), sep)

\* s.split(): the maximal runs without whitespace, empties dropped
SplitWords(s) == SelectSeq(Split(s, " "), LAMBDA t : t # <<>>)

\* int(s): s stripped must be one decimal literal, else ValueError
int(s) ==
    LET t == Strip(s)
    IN  IF Len(t) = 1 /\ \E k \in -MaxInt..MaxInt : ToString(k) = t[1]
        THEN PyInt(CHOOSE k \in -MaxInt..MaxInt : ToString(k) = t[1])
        ELSE Exc("ValueError")

\* str(x) for a value that is not a str
str(x) ==
    CASE x.type = "int"  -> <<ToString(x.v)>>
      [] x.type = "bool" -> IF x.b THEN <<"True">> ELSE <<"False">>
      [] OTHER           -> <<"<object>">>

\* truth value of a Python value (the test `not x`)
Truthy(x) ==
    CASE x.type = "NoneType" -> FALSE
      [] x.type = "str"      -> x.s # <<>>
      [] x.type = "list"     -> x.items # <<>>
      [] x.type = "int"      -> x.v # 0
      [] x.type = "bool"     -> x.b
      [] x.type = "dict"     -> DOMAIN x.d # {}
      [] OTHER               -> TRUE

---------------------------------------------------------------------------
(* DURATION_VALUES and parse_duration *)

DURATION_VALUES ==
    (<<"whole">> :> Fraction(4, 1)) @@
    (<<"half">> :> Fraction(2, 1)) @@
    (<<"quarter">> :> Fraction(1, 1)) @@
    (<<"eighth">> :> Fraction(1, 2)) @@
    (<<"sixteenth">> :> Fraction(1, 4)) @@
    (<<"thirty_second">> :> Fraction(1, 8)) @@
    (<<"rest">> :> Fraction(0, 1)) @@
    (<<"dotted", " ", "whole">> :> Fraction(6, 1)) @@
    (<<"dotted", " ", "half">> :> Fraction(3, 1)) @@
    (<<"dotted", " ", "quarter">> :> Fraction(3, 2)) @@
    (<<"dotted", " ", "eighth">> :> Fraction(3, 4)) @@
    (<<"dotted", " ", "sixteenth">> :> Fraction(3, 8)) @@
    (<<"eigths">> :> Fraction(1, 2)) @@
    (<<"eigth">> :> Fraction(1, 2))

number_words ==
    (<<"one">> :> 1) @@ (<<"two">> :> 2) @@ (<<"three">> :> 3) @@
    (<<"four">> :> 4) @@ (<<"five">> :> 5) @@ (<<"six">> :> 6) @@
    (<<"seven">> :> 7) @@ (<<"eight">> :> 8) @@ (<<"nine">> :> 9) @@
    (<<"ten">> :> 10)

\* sum(...) over the parsed parts, left to right; the first exception raised
\* by a part propagates
RECURSIVE SumParts(_, _)
SumParts(vals, acc) ==
    IF vals = <<>> THEN acc
    ELSE IF IsExc(Head(vals)) THEN Head(vals)
    ELSE SumParts(Tail(vals), FrAdd(acc, Head(vals)))

\* the '*' form dropping the multiplier
parse_multiplication_unscaled(duration_str) ==
    LET parts == Split(duration_str, "*")
        multiplier == int(parts[1])
        duration_type == Strip(parts[2])
    IN  IF IsExc(multiplier) THEN multiplier
        ELSE Get(DURATION_VALUES, duration_type, Fraction(0, 1))

\* lines 70-75: the '*' form
parse_multiplication(duration_str) ==
    LET parts == Split(duration_str, "*")
        multiplier == int(parts[1])
        duration_type == Strip(parts[2])
    IN  IF IsExc(multiplier) THEN multiplier
        ELSE FrMulInt(multiplier.v, Get(DURATION_VALUES, duration_type, Fraction(0, 1)))

\* the written-number form without the plural "sixteenths"
parse_number_words_no_plural(words) ==
    LET multiplier == number_words[words[1]]
        duration_type == Lower(words[2])
        normalized == IF duration_type \in {<<"eigths">>, <<"eigth">>}
                      THEN <<"eighth">>
                      ELSE duration_type
        base_duration == Get(DURATION_VALUES, normalized, Fraction(0, 1))
    IN  FrMulInt(multiplier, base_duration)

\* lines 85-94: the written-number form
parse_number_words(words) ==
    LET multiplier == number_words[words[1]]
        duration_type == Lower(words[2])
        normalized == IF duration_type \in {<<"eigths">>, <<"eigth">>}
                      THEN <<"eighth">>
                      ELSE IF duration_type = <<"sixteenths">>
                      THEN <<"sixteenth">>
                      ELSE duration_type
        base_duration == Get(DURATION_VALUES, normalized, Fraction(0, 1))
    IN  FrMulInt(multiplier, base_duration)

RECURSIVE parse_duration(_)

\* the ',' form keeping only the last part
parse_addition_last(duration_str) ==
    LET parts == Split(duration_str, ",")
    IN  parse_duration(PyStr(Strip(parts[Len(parts)])))

\* lines 66-68: the ',' form
parse_addition(duration_str) ==
    LET parts == Split(duration_str, ",")
    IN  SumParts([k \in 1..Len(parts) |-> parse_duration(PyStr(Strip(parts[k])))],
                 Fraction(0, 1))

\* the simple lookup defaulting to a quarter note for an unknown name
simple_lookup_default_quarter(duration_str) ==
    Get(DURATION_VALUES, duration_str, Fraction(1, 1))

\* lines 96-97: the simple duration
simple_lookup(duration_str) ==
    Get(DURATION_VALUES, duration_str, Fraction(0, 1))

\* lines 60-97 on a str
parse_str(duration_input) ==
    LET duration_str == Lower(Strip(duration_input))
        words == SplitWords(duration_str)
    IN  IF duration_str = <<>> THEN Fraction(0, 1)
        ELSE IF Contains(duration_str, ",")
        THEN parse_addition(duration_str)
        ELSE IF Contains(duration_str, "*")
        THEN parse_multiplication(duration_str)
        ELSE IF Len(words) >= 2 /\ words[1] \in DOMAIN number_words
        THEN parse_number_words(words)
        ELSE simple_lookup(duration_str)

\* the list form taking the first element
parse_list_first(items) ==
    IF Len(items) = 0 THEN Fraction(0, 1)
    ELSE parse_duration(items[1])

\* lines 45-50: the list form
parse_list(items) ==
    IF Len(items) = 0 THEN Fraction(0, 1)
    ELSE parse_duration(items[Len(items)])

parse_duration(duration_input) ==
    IF duration_input.type = "list" THEN parse_list(duration_input.items)
    ELSE IF ~Truthy(duration_input) THEN Fraction(0, 1)
    ELSE IF duration_input.type # "str" THEN parse_str(str(duration_input))
    ELSE parse_str(duration_input.s)

---------------------------------------------------------------------------
(* calculate_measure_duration_events and validate_measure *)

DefaultTimeSignature == PyDict([numerator |-> 4, denominator |-> 4])

\* the two-part parse falling back to 4/4 instead of raising
parse_time_signature_parts_lenient(parts) ==
    LET n == int(parts[1])
        d == int(parts[2])
    IN  IF IsExc(n) \/ IsExc(d) THEN DefaultTimeSignature
        ELSE PyDict([numerator |-> n.v, denominator |-> d.v])

\* "4/4".split('/') with exactly two parts -> {"numerator": int, "denominator": int}
parse_time_signature_parts(parts) ==
    LET n == int(parts[1])
        d == int(parts[2])
    IN  IF IsExc(n) THEN n
        ELSE IF IsExc(d) THEN d
        ELSE PyDict([numerator |-> n.v, denominator |-> d.v])

\* x or default
Or(x, default) == IF Truthy(x) THEN x ELSE default

\* time_signature[key]
Subscript(ts, key) ==
    IF ts.type # "dict" THEN Exc("TypeError")
    ELSE IF key \notin DOMAIN ts.d THEN Exc("KeyError")
    ELSE PyInt(ts.d[key])

\* f"{time_signature['numerator']}/{time_signature['denominator']}"
RenderTimeSignature(ts) ==
    LET n == Subscript(ts, "numerator")
        d == Subscript(ts, "denominator")
    IN  IF IsExc(n) THEN n
        ELSE IF IsExc(d) THEN d
        ELSE PyStr(<<ToString(n.v), "/", ToString(d.v)>>)

\* the duration of an event counted once for every pitch of the event
event_duration_per_pitch(event) ==
    IF "type" \in DOMAIN event THEN Exc("AttributeError")
    ELSE IF IsExc(parse_duration(Get(event, "duration", PyStr(<<"quarter">>))))
    THEN parse_duration(Get(event, "duration", PyStr(<<"quarter">>)))
    ELSE FrMulInt(Len(event.notes),
                  parse_duration(Get(event, "duration", PyStr(<<"quarter">>))))

\* an event without "duration" counted as nothing
event_duration_absent_is_zero(event) ==
    IF "type" \in DOMAIN event THEN Exc("AttributeError")
    ELSE parse_duration(Get(event, "duration", PyNone))

\* lines 129-130: the duration of one event; event.get on an event that is
\* not a dict raises AttributeError
event_duration(event) ==
    IF "type" \in DOMAIN event THEN Exc("AttributeError")
    ELSE parse_duration(Get(event, "duration", PyStr(<<"quarter">>)))

\* lines 127-131: the durations of the events added up in order; the first
\* exception raised by an event propagates
SumEvents(events) ==
    SumParts([k \in 1..Len(events) |-> event_duration(events[k])], Fraction(0, 1))

\* the total taken from the last event alone
calculate_measure_duration_events_last(events) ==
    IF events = <<>> THEN Fraction(0, 1)
    ELSE SumEvents(<<events[Len(events)]>>)

calculate_measure_duration_events(events) ==
    IF events = <<>> THEN Fraction(0, 1)
    ELSE SumEvents(events)

\* the passed signature taken before the measure's own
effective_time_signature_argument_first(measure, ts) ==
    IF ts # PyNone THEN ts
    ELSE LET measure_time_signature == Get(measure, "time_signature", PyNone)
         IN  IF measure_time_signature = PyNone THEN DefaultTimeSignature
             ELSE IF measure_time_signature.type = "str"
             THEN LET parts == Split(measure_time_signature.s, "/")
                  IN  IF Len(parts) = 2 THEN parse_time_signature_parts(parts)
                      ELSE DefaultTimeSignature
             ELSE IF measure_time_signature.type = "dict" THEN measure_time_signature
             ELSE DefaultTimeSignature

\* lines 149-167: the signature validate_measure validates against
effective_time_signature(measure, ts) ==
    LET measure_time_signature == Get(measure, "time_signature", PyNone)
    IN  IF measure_time_signature # PyNone
        THEN IF measure_time_signature.type = "str"
             THEN LET parts == Split(measure_time_signature.s, "/")
                  IN  IF Len(parts) = 2
                      THEN parse_time_signature_parts(parts)
                      ELSE Or(ts, DefaultTimeSignature)
             ELSE IF measure_time_signature.type = "dict"
             THEN measure_time_signature
             ELSE Or(ts, DefaultTimeSignature)
        ELSE IF ts = PyNone THEN DefaultTimeSignature ELSE ts

\* the expected duration counted in whole notes: without the factor 4
expected_duration_of_whole_notes(ts) ==
    LET n == Subscript(ts, "numerator")
        d == Subscript(ts, "denominator")
    IN  IF IsExc(n) THEN n
        ELSE IF IsExc(d) THEN d
        ELSE IF d.v = 0 THEN Exc("ZeroDivisionError")
        ELSE Fraction(n.v, d.v)

\* line 169
expected_duration_of(ts) ==
    LET n == Subscript(ts, "numerator")
        d == Subscript(ts, "denominator")
    IN  IF IsExc(n) THEN n
        ELSE IF IsExc(d) THEN d
        ELSE IF d.v = 0 THEN Exc("ZeroDivisionError")
        ELSE FrMulInt(4, Fraction(n.v, d.v))

\* a tolerance of one thirty-second note
Tolerance_thirty_second == Fraction(1, 8)

\* line 189
Tolerance == Fraction(1, 1000)

\* the comparison with < in place of <=
within_tolerance_strict(duration, expected_duration) ==
    LET error == FrAbs(FrSub(duration, expected_duration))
    IN  FrLeq(error, Tolerance) /\ error # Tolerance

\* lines 192-193
within_tolerance(duration, expected_duration) ==
    FrLeq(FrAbs(FrSub(duration, expected_duration)), Tolerance)

\* the combination with "or" in place of "and"
both_valid_either(right_valid, left_valid) == right_valid \/ left_valid

\* line 207
both_valid_of(right_valid, left_valid) == right_valid /\ left_valid

\* lines 186-212
build_result(measure, ts, expected_duration, right_hand_duration, left_hand_duration) ==
    LET right_valid == within_tolerance(right_hand_duration, expected_duration)
        left_valid == within_tolerance(left_hand_duration, expected_duration)
    IN  [measure_id |-> Get(measure, "id", "?"),
         time_signature |-> RenderTimeSignature(ts),
         expected_duration |-> Float(expected_duration),
         right_hand_duration |-> Float(right_hand_duration),
         left_hand_duration |-> Float(left_hand_duration),
         right_hand_valid |-> right_valid,
         left_hand_valid |-> left_valid,
         both_valid |-> both_valid_of(right_valid, left_valid),
         right_hand_error |-> Float(FrAbs(FrSub(right_hand_duration, expected_duration))),
         left_hand_error |-> Float(FrAbs(FrSub(left_hand_duration, expected_duration)))]

\* lines 169-212: an exception raised by line 169 or by either voice
\* propagates, in the order of the statements
validate_durations(measure, effective, expected_duration, right_hand_duration, left_hand_duration) ==
    IF IsExc(expected_duration) THEN expected_duration
    ELSE IF IsExc(right_hand_duration) THEN right_hand_duration
    ELSE IF IsExc(left_hand_duration) THEN left_hand_duration
    ELSE build_result(measure, effective, expected_duration,
                      right_hand_duration, left_hand_duration)

\* a missing voice taken to be the other voice of the measure
validate_against_mirrored(measure, effective) ==
    IF IsExc(effective) THEN effective
    ELSE validate_durations(measure, effective, expected_duration_of(effective),
             calculate_measure_duration_events(
                 Get(measure, "right_hand", Get(measure, "left_hand", <<>>))),
             calculate_measure_duration_events(
                 Get(measure, "left_hand", Get(measure, "right_hand", <<>>))))

\* lines 169-212 with the signature of lines 149-167
validate_against(measure, effective) ==
    IF IsExc(effective) THEN effective
    ELSE validate_durations(measure, effective, expected_duration_of(effective),
             calculate_measure_duration_events(Get(measure, "right_hand", <<>>)),
             calculate_measure_duration_events(Get(measure, "left_hand", <<>>)))

validate_measure(measure, ts) ==
    validate_against(measure, effective_time_signature(measure, ts))

---------------------------------------------------------------------------
(* validate_all_measures *)

\* lines 226-235: the score's global signature
global_time_signature(music_data) ==
    LET ts == Get(music_data, "time_signature", DefaultTimeSignature)
    IN  IF ts.type = "str"
        THEN LET parts == Split(ts.s, "/")
             IN  IF Len(parts) = 2 THEN parse_time_signature_parts(parts)
                 ELSE DefaultTimeSignature
        ELSE ts

\* the fold without the carry-forward: the running signature is never updated
next_current_time_signature_no_carry(measure, current) == current

\* lines 255-263: the running signature after seeing one measure
next_current_time_signature(measure, current) ==
    LET measure_time_sig == Get(measure, "time_signature", PyNone)
    IN  IF measure_time_sig # PyNone
        THEN IF measure_time_sig.type = "str"
             THEN LET parts == Split(measure_time_sig.s, "/")
                  IN  IF Len(parts) = 2 THEN parse_time_signature_parts(parts)
                      ELSE current
             ELSE IF measure_time_sig.type = "dict" THEN measure_time_sig
             ELSE current
        ELSE current

CountWhere(rs, P(_)) == Cardinality({k \in 1..Len(rs) : P(rs[k])})

RECURSIVE SumErrors(_, _)
SumErrors(rs, field) ==
    IF rs = <<>> THEN Fraction(0, 1)
    ELSE FrAdd(rs[1][field].nearest, SumErrors(Tail(rs), field))

\* sum(r[field] for r in results) / len(results): float arithmetic, exact
\* when every operand and the quotient are exactly representable
average_error(rs, field) ==
    LET total == SumErrors(rs, field)
        mean == Fraction(total.num, total.den * Len(rs))
    IN  [nearest |-> mean,
         exact |-> IsPow2(mean.den) /\ \A k \in 1..Len(rs) : rs[k][field].exact]

\* lines 270-288
build_report(ts, ms, rs, allvalid) ==
    LET rendered == RenderTimeSignature(ts)
        valid_count == CountWhere(rs, LAMBDA r : r.both_valid)
    IN  IF IsExc(rendered) THEN rendered
        ELSE [status |-> "success",
              time_signature |-> rendered,
              total_measures |-> Len(ms),
              valid_measures |-> valid_count,
              invalid_measures |-> Len(rs) - valid_count,
              all_valid |-> allvalid,
              measure_results |-> rs,
              summary |->
                [right_hand_valid_count |-> CountWhere(rs, LAMBDA r : r.right_hand_valid),
                 left_hand_valid_count |-> CountWhere(rs, LAMBDA r : r.left_hand_valid),
                 average_right_hand_error |->
                     IF rs # <<>> THEN average_error(rs, "right_hand_error")
                     ELSE Float(Fraction(0, 1)),
                 average_left_hand_error |->
                     IF rs # <<>> THEN average_error(rs, "left_hand_error")
                     ELSE Float(Fraction(0, 1))]]

EmptyScoreError ==
    [status |-> "error", error_message |-> "No measures found in music data"]

---------------------------------------------------------------------------
(* Inputs *)

\* longest list given to parse_duration
MaxListLen == 2

\* most comma-separated parts of a generated duration string
MaxParts == 2

Sp == <<" ">>

\* single-token duration strings: table names, case variants, unknown names
SimpleTokens ==
    DOMAIN DURATION_VALUES \cup
    {<<"QUARTER">>, <<"Quarter">>, <<"HALF">>, <<"DOTTED", " ", "HALF">>,
     <<"eighths">>, <<"sixteenths">>, <<"unknown">>, <<"dotted", " ", " ", "half">>,
     <<" ", "quarter", " ">>, <<"thirty-second">>, <<"dotted", " ", "thirty_second">>,
     <<"dotted", " ", "rest">>}

\* "k * t" strings, well formed and not
StarTokens ==
    {<<ToString(k)>> \o Sp \o <<"*">> \o Sp \o t :
        k \in {-2, 0, 1, 2, 3, 7},
        t \in {<<"eighth">>, <<"quarter">>, <<"dotted", " ", "quarter">>, <<"unknown">>}}
    \cup {<<"3", "*", "eighth">>, <<"3", " ", "*">>, <<"2", "*", "3", "*", "quarter">>,
          <<"x", " ", "*", " ", "quarter">>, <<"*", " ", "quarter">>,
          <<"2.5", " ", "*", " ", "quarter">>, <<"three", " ", "*", " ", "eighth">>}

NumberWordTokens ==
    {<<w>> \o Sp \o u :
        w \in {t[1] : t \in DOMAIN number_words} \cup {"SEVEN", "Three", "eleven"},
        u \in {<<"eighth">>, <<"sixteenth">>, <<"eigth">>, <<"eigths">>, <<"sixteenths">>,
               <<"eighths">>, <<"quarter">>, <<"Eighth">>, <<"unknown">>,
               <<"dotted", " ", "quarter">>}}

\* the parts a comma-joined string is built from
CommaParts ==
    {<<"half">>, <<"sixteenth">>, <<"quarter">>, <<"unknown">>, <<>>,
     <<"2", " ", "*", " ", "eighth">>, <<"seven", " ", "sixteenth">>,
     <<"x", " ", "*", " ", "quarter">>, <<"dotted", " ", "quarter">>}

RECURSIVE JoinComma(_)
JoinComma(parts) ==
    IF Len(parts) = 1 THEN parts[1]
    ELSE parts[1] \o <<",", " ">> \o JoinComma(Tail(parts))

CommaTokens ==
    {JoinComma(ps) : ps \in UNION {[1..n -> CommaParts] : n \in 2..MaxParts}}

\* upper- and mixed-case spellings of the comma and '*' forms
CaseVariantTokens ==
    {<<"HALF", ",", " ", "Quarter">>, <<"3", " ", "*", " ", "Eighth">>,
     <<"2", " ", "*", " ", "DOTTED", " ", "QUARTER">>}

DurationStrings ==
    {<<>>, <<" ">>} \cup SimpleTokens \cup StarTokens \cup NumberWordTokens \cup CommaTokens
    \cup CaseVariantTokens

ListItems ==
    {PyStr(<<"half">>), PyStr(<<"sixteenth">>), PyStr(<<"half", ",", " ", "sixteenth">>),
     PyStr(<<"x", " ", "*", " ", "quarter">>), PyStr(<<"unknown">>), PyNone,
     PyStr(<<"QUARTER">>), PyList(<<>>), PyList(<<PyStr(<<"whole">>), PyStr(<<"eighth">>)>>)}

DurationLists ==
    {PyList(items) : items \in UNION {[1..n -> ListItems] : n \in 0..MaxListLen}}

DurationInputs ==
    {PyStr(s) : s \in DurationStrings} \cup DurationLists \cup
    {PyNone, PyInt(0), PyInt(5), [type |-> "bool", b |-> TRUE], [type |-> "bool", b |-> FALSE]}

Event(duration) == [notes |-> <<"C4">>, duration |-> PyStr(duration)]

Quarters(n) == [k \in 1..n |-> Event(<<"quarter">>)]

\* the two voices of a measure
HandPairs ==
    {<<Quarters(4), Quarters(4)>>,
     <<Quarters(3), <<Event(<<"half">>), Event(<<"quarter">>)>>>>,
     <<Quarters(4), Quarters(3)>>}

TimeSignatureDicts ==
    {PyDict([numerator |-> 3, denominator |-> 4]),
     PyDict([numerator |-> 4001, denominator |-> 4000]),
     PyDict([numerator |-> 2001, denominator |-> 2000])}

TimeSignatureStrings ==
    {PyStr(<<"6", "/", "8">>), PyStr(<<"4">>), PyStr(<<"3", "/", "4", "/", "4">>),
     PyStr(<<"a", "/", "b">>)}

TimeSignatureValues == TimeSignatureDicts \cup TimeSignatureStrings

\* most events of a generated voice of quarter notes
MaxEvents == 5

EventWith(notes, duration) == [notes |-> notes, duration |-> PyStr(duration)]

\* a voice whose first event has a negative multiplier
NegativeVoice == <<Event(<<"-2", " ", "*", " ", "quarter">>), Event(<<"quarter">>)>>

\* four quarter-note chords, and a voice of one pitch, one chord and one rest
ChordVoice == [k \in 1..4 |-> EventWith(<<"C4", "E4", "G4">>, <<"quarter">>)]

RestVoice ==
    <<EventWith(<<"C4">>, <<"quarter">>), EventWith(<<"C4", "E4">>, <<"half">>),
      EventWith(<<"Rest">>, <<"quarter">>)>>

\* further voices for direct validate_measure calls
ExtraHandPairs ==
    {<<Quarters(k), Quarters(k)>> : k \in 0..MaxEvents} \cup
    {<<NegativeVoice, Quarters(4)>>, <<ChordVoice, RestVoice>>}

\* measures with an empty voice or without one of the voices
VoicelessBodies ==
    {[left_hand |-> Quarters(4)],
     [right_hand |-> Quarters(4)],
     [right_hand |-> <<>>, left_hand |-> Quarters(4)],
     [right_hand |-> Quarters(3), left_hand |-> <<>>,
      time_signature |-> PyDict([numerator |-> 3, denominator |-> 4])],
     [left_hand |-> Quarters(3), time_signature |-> PyStr(<<"6", "/", "8">>)]}

\* a voice of the given duration names
VoiceOf(names) == [k \in 1..Len(names) |-> Event(names[k])]

\* measures in 5/32, 3/16, 1/1, 3/2 and 9/8 with voices down to the
\* thirty-second note, complete or short by 1/8 beat
FineBodies ==
    {[right_hand |-> VoiceOf(<<<<"eighth">>, <<"thirty_second">>>>),
      left_hand |-> VoiceOf(<<<<"eighth">>>>),
      time_signature |-> PyDict([numerator |-> 5, denominator |-> 32])],
     [right_hand |-> VoiceOf(<<<<"dotted", " ", "eighth">>>>),
      left_hand |-> VoiceOf(<<<<"dotted", " ", "sixteenth">>, <<"dotted", " ", "sixteenth">>>>),
      time_signature |-> PyDict([numerator |-> 3, denominator |-> 16])],
     [right_hand |-> VoiceOf(<<<<"whole">>>>),
      left_hand |-> VoiceOf(<<<<"dotted", " ", "half">>, <<"dotted", " ", "sixteenth">>,
                              <<"dotted", " ", "sixteenth">>, <<"thirty_second">>>>),
      time_signature |-> PyDict([numerator |-> 1, denominator |-> 1])],
     [right_hand |-> VoiceOf(<<<<"dotted", " ", "whole">>>>),
      left_hand |-> VoiceOf(<<<<"whole">>, <<"half">>>>),
      time_signature |-> PyDict([numerator |-> 3, denominator |-> 2])],
     [right_hand |-> VoiceOf(<<<<"whole">>, <<"eighth">>>>),
      left_hand |-> VoiceOf(<<<<"whole">>, <<"dotted", " ", "sixteenth">>>>),
      time_signature |-> PyDict([numerator |-> 9, denominator |-> 8])]}

\* an event without the "duration" key
Undated == [notes |-> <<"C4">>]

\* an event whose duration is the given value
Dated(duration) == [notes |-> <<"C4">>, duration |-> duration]

\* measures with events that have no duration, or a null or empty one
DefaultedBodies ==
    {[right_hand |-> <<Undated, Undated, Undated, Undated>>,
      left_hand |-> <<Event(<<"half">>), Dated(PyNone), Event(<<"half">>),
                      Dated(PyStr(<<>>)), Dated(PyList(<<>>))>>],
     [right_hand |-> <<Undated, Event(<<"half">>), Dated(PyNone)>>,
      left_hand |-> <<Dated(PyList(<<>>)), Undated, Undated, Undated>>,
      time_signature |-> PyDict([numerator |-> 3, denominator |-> 4])]}

\* measures without the "id" key, with and without "time_signature"
MeasureBodies ==
    VoicelessBodies \cup FineBodies \cup DefaultedBodies \cup
    {[right_hand |-> h[1], left_hand |-> h[2]] : h \in HandPairs \cup ExtraHandPairs} \cup
    {[right_hand |-> h[1], left_hand |-> h[2], time_signature |-> ts] :
        h \in HandPairs \cup ExtraHandPairs, ts \in TimeSignatureValues}

WithId(body, id) == [id |-> id] @@ body

\* the global signatures of the scores
ScoreSignatures ==
    {PyDict([numerator |-> 3, denominator |-> 4]), PyStr(<<"2", "/", "4">>),
     PyStr(<<"4">>), PyStr(<<"3", "/", "4", "/", "4">>), PyStr(<<"a", "/", "b">>)}

MixedVoice == <<Event(<<"half">>), Event(<<"2", " ", "*", " ", "eighth">>)>>

ScoreMeasureBodies ==
    {[right_hand |-> h[1], left_hand |-> h[2]] : h \in HandPairs} \cup
    {[right_hand |-> Quarters(3), left_hand |-> MixedVoice,
      time_signature |-> PyDict([numerator |-> 3, denominator |-> 4])],
     [right_hand |-> MixedVoice, left_hand |-> Quarters(4),
      time_signature |-> PyStr(<<"6", "/", "8">>)],
     [right_hand |-> Quarters(4), left_hand |-> Quarters(4),
      time_signature |-> PyStr(<<"4">>)],
     [right_hand |-> Quarters(4), left_hand |-> Quarters(4),
      time_signature |-> PyStr(<<"a", "/", "b">>)]}

\* the measure lists whose ids ascend (TRUE) or descend (FALSE)
NumberedLists(directions) ==
    UNION {{[k \in 1..n |-> WithId(bodies[k], IF asc THEN k ELSE n + 1 - k)] :
               bodies \in [1..n -> ScoreMeasureBodies], asc \in directions} : n \in 0..MaxMeasures}

\* the lists of the scores without a global signature: ids in either direction
MeasureLists == NumberedLists(BOOLEAN)

\* the lists of the scores that carry a global signature
AscendingLists == NumberedLists({TRUE})

\* duration tokens no rule of parse_duration recognizes
UnrecognizedTokens == {<<"unknown">>, <<"x", " ", "*", " ", "quarter">>}

\* a voice with one unrecognized token between two half notes
TokenVoice(token) == <<Event(<<"half">>), Event(token), Event(<<"half">>)>>

\* two-measure scores with an unrecognized token in one event
TokenScores ==
    {[measures |-> <<WithId([right_hand |-> TokenVoice(t), left_hand |-> Quarters(4)], 1),
                     WithId([right_hand |-> Quarters(4), left_hand |-> Quarters(3)], 2)>>] :
        t \in UnrecognizedTokens} \cup
    {[measures |-> <<WithId([right_hand |-> Quarters(4), left_hand |-> Quarters(3)], 1),
                     WithId([right_hand |-> TokenVoice(t), left_hand |-> Quarters(4)], 2)>>] :
        t \in UnrecognizedTokens}

Scores ==
    TokenScores \cup
    {[measures |-> ms] : ms \in MeasureLists} \cup
    {[measures |-> ms, time_signature |-> ts] :
        ms \in AscendingLists, ts \in ScoreSignatures} \cup
    {[time_signature |-> ts] : ts \in ScoreSignatures} \cup
    {[title |-> "untitled"]}

\* arguments of a direct validate_measure call
TimeSignatureArgs == {PyNone} \cup TimeSignatureDicts

\* the pickup, middle and closing measures of test_first_last_measure.py
FlagMeasures ==
    {[id |-> 1, right_hand |-> Quarters(1), left_hand |-> Quarters(1)],
     [id |-> 2, right_hand |-> Quarters(4),
      left_hand |-> <<Event(<<"half">>), Event(<<"half">>)>>],
     [id |-> 3, right_hand |-> Quarters(1), left_hand |-> Quarters(1)]}

\* the keyword arguments of the calls of validate_measure
KeywordArguments ==
    {[is_first |-> TRUE], [is_last |-> TRUE], [is_first |-> FALSE, is_last |-> FALSE],
     [time_signature |-> DefaultTimeSignature]}

\* measures given to the agent tools: sound ones, and ones on which the
\* validator raises ValueError, ZeroDivisionError, KeyError, AttributeError
ToolMeasureBodies ==
    {[right_hand |-> Quarters(4), left_hand |-> Quarters(4)],
     [right_hand |-> Quarters(4), left_hand |-> Quarters(3)],
     [right_hand |-> TokenVoice(<<"x", " ", "*", " ", "quarter">>), left_hand |-> Quarters(4)],
     [right_hand |-> Quarters(4), left_hand |-> Quarters(4),
      time_signature |-> PyStr(<<"a", "/", "b">>)],
     [right_hand |-> Quarters(4), left_hand |-> Quarters(4),
      time_signature |-> PyDict([numerator |-> 4, denominator |-> 0])],
     [right_hand |-> Quarters(4), left_hand |-> Quarters(4),
      time_signature |-> PyDict([numerator |-> 4])],
     [right_hand |-> <<PyStr(<<"quarter">>)>>, left_hand |-> Quarters(4)],
     [right_hand |-> Quarters(4), left_hand |-> Quarters(4), time_signature |-> PyStr(<<"4">>)],
     [right_hand |-> Quarters(4), left_hand |-> Quarters(4), time_signature |-> PyInt(44)]}

\* the time_signature argument of validate_measure_duration
ToolTimeSignatureArgs ==
    {PyNone, PyDict([numerator |-> 3, denominator |-> 4]),
     PyDict([numerator |-> 4, denominator |-> 0]), PyInt(44)}

\* the music_data given to the validate_all_measures tool
ToolScores ==
    UNION {{[measures |-> [k \in 1..n |-> WithId(bodies[k], k)]] :
               bodies \in [1..n -> ToolMeasureBodies]} : n \in 0..2} \cup
    {[measures |-> <<WithId(body, 1)>>, time_signature |-> ts] :
        body \in ToolMeasureBodies,
        ts \in {PyStr(<<"a", "/", "b">>), PyDict([numerator |-> 4])}} \cup
    {[measures |-> <<WithId(body, 1)>>, time_signature |-> PyNone] :
        body \in ToolMeasureBodies} \cup
    {[time_signature |-> PyStr(<<"a", "/", "b">>)], [title |-> "untitled"]}

---------------------------------------------------------------------------
(* Specification *)

Init ==
    /\ pc = "idle"
    /\ call = [fn |-> "none"]
    /\ ret = PyNone
    /\ measures = <<>>
    /\ time_signature = PyNone
    /\ current_time_signature = PyNone
    /\ i = 0
    /\ results = <<>>
    /\ all_valid = TRUE

\* one call of parse_duration
CallParseDuration ==
    /\ pc = "idle"
    /\ \E duration_input \in DurationInputs :
         /\ call' = [fn |-> "parse_duration", duration_input |-> duration_input]
         /\ ret' = parse_duration(duration_input)
    /\ pc' = "done"
    /\ UNCHANGED <<measures, time_signature, current_time_signature, i, results, all_valid>>

\* one direct call of validate_measure
CallValidateMeasure ==
    /\ pc = "idle"
    /\ \E body \in MeasureBodies, ts \in TimeSignatureArgs :
         /\ call' = [fn |-> "validate_measure", measure |-> WithId(body, 1),
                     time_signature |-> ts]
         /\ ret' = validate_measure(WithId(body, 1), ts)
    /\ pc' = "done"
    /\ UNCHANGED <<measures, time_signature, current_time_signature, i, results, all_valid>>

\* validate_all_measures, lines 225-251: up to the start of the loop
CallValidateAll ==
    /\ pc = "idle"
    /\ \E music_data \in Scores :
         LET ts == global_time_signature(music_data)
             ms == Get(music_data, "measures", <<>>)
         IN  /\ call' = [fn |-> "validate_all_measures", music_data |-> music_data]
             /\ IF IsExc(ts)
                THEN /\ ret' = ts
                     /\ pc' = "done"
                     /\ UNCHANGED <<measures, time_signature, current_time_signature>>
                ELSE IF ms = <<>>
                THEN /\ ret' = EmptyScoreError
                     /\ pc' = "done"
                     /\ time_signature' = ts
                     /\ UNCHANGED <<measures, current_time_signature>>
                ELSE /\ ret' = ret
                     /\ pc' = "loop"
                     /\ time_signature' = ts
                     /\ measures' = ms
                     /\ current_time_signature' = ts
    /\ UNCHANGED <<i, results, all_valid>>

\* str(e): the text depends on the offending value, only the class of the
\* exception is followed here
str_exception(e) ==
    CASE e.exc = "ValueError"        -> "invalid literal for int() with base 10"
      [] e.exc = "ZeroDivisionError" -> "Fraction(n, 0)"
      [] e.exc = "KeyError"          -> "'denominator'"
      [] e.exc = "TypeError"         -> "object is not subscriptable"
      [] e.exc = "AttributeError"    -> "object has no attribute 'get'"
      [] OTHER                       -> e.exc

\* the try block without its except clause
catch_exception_reraise(outcome) == outcome

\* agent_tools.py lines 398-402, 419-423: except Exception as e
catch_exception(outcome) ==
    IF IsExc(outcome)
    THEN [status |-> "error", error_message |-> str_exception(outcome)]
    ELSE outcome

\* agent_tools.py lines 378-397: the returned dict; an exception raised by
\* validate_measure passes through to the except clause
success_result(result) ==
    IF IsExc(result) THEN result
    ELSE [status |-> "success",
          valid |-> result.both_valid,
          measure_id |-> result.measure_id,
          time_signature |-> result.time_signature,
          expected_duration |-> result.expected_duration,
          right_hand |-> [duration |-> result.right_hand_duration,
                          valid |-> result.right_hand_valid,
                          error |-> result.right_hand_error],
          left_hand |-> [duration |-> result.left_hand_duration,
                         valid |-> result.left_hand_valid,
                         error |-> result.left_hand_error]]

\* agent_tools.py lines 360-402
validate_measure_duration(measure, ts) ==
    catch_exception(success_result(
        validate_measure(measure, IF ts = PyNone THEN DefaultTimeSignature ELSE ts)))

AgentTools == {"agent_tools.validate_all_measures", "agent_tools.validate_measure_duration"}

\* what the running call hands to its caller: inside an agent tool the
\* except clause turns a raised exception into a result
leave(outcome) == IF call.fn \in AgentTools THEN catch_exception(outcome) ELSE outcome

\* line 136: validate_measure(measure, time_signature=None) called with
\* keyword arguments; a keyword that is no parameter of the function raises
\* TypeError before the body runs
validate_measure_keywords(measure, kwargs) ==
    IF DOMAIN kwargs \subseteq {"time_signature"}
    THEN validate_measure(measure, Get(kwargs, "time_signature", PyNone))
    ELSE Exc("TypeError")

\* one call of validate_measure with keyword arguments
CallValidateMeasureKeywords ==
    /\ pc = "idle"
    /\ \E measure \in FlagMeasures, kwargs \in KeywordArguments :
         /\ call' = [fn |-> "validate_measure(**kwargs)", measure |-> measure,
                     kwargs |-> kwargs]
         /\ ret' = validate_measure_keywords(measure, kwargs)
    /\ pc' = "done"
    /\ UNCHANGED <<measures, time_signature, current_time_signature, i, results, all_valid>>

\* one call of the validate_measure_duration tool
CallToolValidateMeasureDuration ==
    /\ pc = "idle"
    /\ \E body \in ToolMeasureBodies, ts \in ToolTimeSignatureArgs :
         /\ call' = [fn |-> "agent_tools.validate_measure_duration",
                     measure |-> WithId(body, 1), time_signature |-> ts]
         /\ ret' = validate_measure_duration(WithId(body, 1), ts)
    /\ pc' = "done"
    /\ UNCHANGED <<measures, time_signature, current_time_signature, i, results, all_valid>>

\* the validate_all_measures tool, agent_tools.py lines 405-423, up to the
\* start of the validator's loop
CallToolValidateAll ==
    /\ pc = "idle"
    /\ \E music_data \in ToolScores :
         LET ts == global_time_signature(music_data)
             ms == Get(music_data, "measures", <<>>)
         IN  /\ call' = [fn |-> "agent_tools.validate_all_measures", music_data |-> music_data]
             /\ IF IsExc(ts)
                THEN /\ ret' = catch_exception(ts)
                     /\ pc' = "done"
                     /\ UNCHANGED <<measures, time_signature, current_time_signature>>
                ELSE IF ms = <<>>
                THEN /\ ret' = EmptyScoreError
                     /\ pc' = "done"
                     /\ time_signature' = ts
                     /\ UNCHANGED <<measures, current_time_signature>>
                ELSE /\ ret' = ret
                     /\ pc' = "loop"
                     /\ time_signature' = ts
                     /\ measures' = ms
                     /\ current_time_signature' = ts
    /\ UNCHANGED <<i, results, all_valid>>

\* the new result put in front of the earlier ones
append_result_in_front(rs, result) == <<result>> \o rs

\* line 266: results.append(result)
append_result(rs, result) == Append(rs, result)

\* the loop validating every measure against the global signature, with no
\* running signature
LoopBody_global ==
    /\ pc = "loop"
    /\ i < Len(measures)
    /\ \E result \in {validate_measure(measures[i + 1], time_signature)} :
         IF IsExc(result)
         THEN /\ ret' = leave(result)
              /\ pc' = "done"
              /\ UNCHANGED <<current_time_signature, i, results, all_valid>>
         ELSE /\ results' = append_result(results, result)
              /\ all_valid' = (all_valid /\ result.both_valid)
              /\ i' = i + 1
              /\ UNCHANGED <<ret, pc, current_time_signature>>
    /\ UNCHANGED <<call, measures, time_signature>>

\* lines 253-268: one iteration of the loop over the measures
LoopBody ==
    /\ pc = "loop"
    /\ i < Len(measures)
    /\ \E current \in {next_current_time_signature(measures[i + 1], current_time_signature)} :
         IF IsExc(current)
         THEN /\ ret' = leave(current)
              /\ pc' = "done"
              /\ UNCHANGED <<current_time_signature, i, results, all_valid>>
         ELSE \E result \in {validate_measure(measures[i + 1], current)} :
                IF IsExc(result)
                THEN /\ ret' = leave(result)
                     /\ pc' = "done"
                     /\ current_time_signature' = current
                     /\ UNCHANGED <<i, results, all_valid>>
                ELSE /\ current_time_signature' = current
                     /\ results' = append_result(results, result)
                     /\ all_valid' = (all_valid /\ result.both_valid)
                     /\ i' = i + 1
                     /\ UNCHANGED <<ret, pc>>
    /\ UNCHANGED <<call, measures, time_signature>>

\* the report rendering the running signature in place of the global one
ReturnReport_current ==
    /\ pc = "loop"
    /\ i = Len(measures)
    /\ ret' = leave(build_report(current_time_signature, measures, results, all_valid))
    /\ pc' = "done"
    /\ UNCHANGED <<call, measures, time_signature, current_time_signature, i, results, all_valid>>

\* lines 270-288: the statistics and the returned report
ReturnReport ==
    /\ pc = "loop"
    /\ i = Len(measures)
    /\ ret' = leave(build_report(time_signature, measures, results, all_valid))
    /\ pc' = "done"
    /\ UNCHANGED <<call, measures, time_signature, current_time_signature, i, results, all_valid>>

Next ==
    \/ CallParseDuration
    \/ CallValidateMeasure
    \/ CallValidateMeasureKeywords
    \/ CallValidateAll
    \/ CallToolValidateMeasureDuration
    \/ CallToolValidateAll
    \/ LoopBody
    \/ ReturnReport

Spec == Init /\ [][Next]_vars

---------------------------------------------------------------------------
(* Concurrent calls: every variable holds one value per call *)

\* number of calls running at the same time
NumRuns == 2

Runs == 1..NumRuns

\* the scores of the concurrent calls
ConcurrentScores ==
    {[measures |-> <<WithId([right_hand |-> Quarters(3), left_hand |-> MixedVoice,
                             time_signature |-> PyDict([numerator |-> 3, denominator |-> 4])], 1),
                     WithId([right_hand |-> Quarters(3),
                             left_hand |-> <<Event(<<"half">>), Event(<<"quarter">>)>>], 2)>>],
     [measures |-> <<WithId([right_hand |-> Quarters(4), left_hand |-> Quarters(4)], 1),
                     WithId([right_hand |-> Quarters(3),
                             left_hand |-> <<Event(<<"half">>), Event(<<"quarter">>)>>], 2)>>],
     [measures |-> <<WithId([right_hand |-> Quarters(4), left_hand |-> Quarters(3)], 1)>>],
     [measures |-> <<WithId([right_hand |-> Quarters(4), left_hand |-> Quarters(4),
                             time_signature |-> PyStr(<<"a", "/", "b">>)], 1)>>],
     [title |-> "untitled"]}

\* the measures of the concurrent direct calls of validate_measure
ConcurrentMeasures ==
    {WithId([right_hand |-> Quarters(4), left_hand |-> Quarters(3)], 1),
     WithId([right_hand |-> Quarters(3), left_hand |-> Quarters(3),
             time_signature |-> PyStr(<<"3", "/", "4">>)], 1)}

\* one set of locals for all calls, as module-level variables would be
frame_shared(r) == 1

\* the locals of a call (time_signature, measures, current_time_signature,
\* results, all_valid, the loop position) live in the call's own frame
frame(r) == r

InitConcurrent ==
    /\ pc = [r \in Runs |-> "idle"]
    /\ call = [r \in Runs |-> [fn |-> "none"]]
    /\ ret = [r \in Runs |-> PyNone]
    /\ measures = [f \in Runs |-> <<>>]
    /\ time_signature = [f \in Runs |-> PyNone]
    /\ current_time_signature = [f \in Runs |-> PyNone]
    /\ i = [f \in Runs |-> 0]
    /\ results = [f \in Runs |-> <<>>]
    /\ all_valid = [f \in Runs |-> TRUE]

\* a call of validate_measure by one caller
RunValidateMeasure(r) ==
    /\ pc[r] = "idle"
    /\ \E measure \in ConcurrentMeasures :
         /\ call' = [call EXCEPT ![r] = [fn |-> "validate_measure", measure |-> measure,
                                          time_signature |-> PyNone]]
         /\ ret' = [ret EXCEPT ![r] = validate_measure(measure, PyNone)]
    /\ pc' = [pc EXCEPT ![r] = "done"]
    /\ UNCHANGED <<measures, time_signature, current_time_signature, i, results, all_valid>>

\* lines 225-251 in the frame of one call
RunValidateAll(r) ==
    /\ pc[r] = "idle"
    /\ \E music_data \in ConcurrentScores :
       \E ts \in {global_time_signature(music_data)} :
         /\ call' = [call EXCEPT ![r] = [fn |-> "validate_all_measures",
                                          music_data |-> music_data]]
         /\ IF IsExc(ts)
            THEN /\ ret' = [ret EXCEPT ![r] = ts]
                 /\ pc' = [pc EXCEPT ![r] = "done"]
                 /\ UNCHANGED <<measures, time_signature, current_time_signature,
                                i, results, all_valid>>
            ELSE IF Get(music_data, "measures", <<>>) = <<>>
            THEN /\ ret' = [ret EXCEPT ![r] = EmptyScoreError]
                 /\ pc' = [pc EXCEPT ![r] = "done"]
                 /\ time_signature' = [time_signature EXCEPT ![frame(r)] = ts]
                 /\ UNCHANGED <<measures, current_time_signature, i, results, all_valid>>
            ELSE /\ pc' = [pc EXCEPT ![r] = "loop"]
                 /\ time_signature' = [time_signature EXCEPT ![frame(r)] = ts]
                 /\ measures' = [measures EXCEPT ![frame(r)] = music_data.measures]
                 /\ current_time_signature' =
                        [current_time_signature EXCEPT ![frame(r)] = ts]
                 /\ i' = [i EXCEPT ![frame(r)] = 0]
                 /\ results' = [results EXCEPT ![frame(r)] = <<>>]
                 /\ all_valid' = [all_valid EXCEPT ![frame(r)] = TRUE]
                 /\ UNCHANGED ret

\* lines 253-268 in the frame of one call
RunLoopBody(r) ==
    /\ pc[r] = "loop"
    /\ i[frame(r)] < Len(measures[frame(r)])
    /\ \E current \in {next_current_time_signature(measures[frame(r)][i[frame(r)] + 1],
                                                    current_time_signature[frame(r)])} :
         IF IsExc(current)
         THEN /\ ret' = [ret EXCEPT ![r] = current]
              /\ pc' = [pc EXCEPT ![r] = "done"]
              /\ UNCHANGED <<current_time_signature, i, results, all_valid>>
         ELSE \E result \in {validate_measure(measures[frame(r)][i[frame(r)] + 1], current)} :
                IF IsExc(result)
                THEN /\ ret' = [ret EXCEPT ![r] = result]
                     /\ pc' = [pc EXCEPT ![r] = "done"]
                     /\ current_time_signature' =
                            [current_time_signature EXCEPT ![frame(r)] = current]
                     /\ UNCHANGED <<i, results, all_valid>>
                ELSE /\ current_time_signature' =
                            [current_time_signature EXCEPT ![frame(r)] = current]
                     /\ results' = [results EXCEPT ![frame(r)] = append_result(@, result)]
                     /\ all_valid' = [all_valid EXCEPT ![frame(r)] = (@ /\ result.both_valid)]
                     /\ i' = [i EXCEPT ![frame(r)] = @ + 1]
                     /\ UNCHANGED <<ret, pc>>
    /\ UNCHANGED <<call, measures, time_signature>>

\* lines 270-288 in the frame of one call
RunReturnReport(r) ==
    /\ pc[r] = "loop"
    /\ i[frame(r)] = Len(measures[frame(r)])
    /\ ret' = [ret EXCEPT ![r] = build_report(time_signature[frame(r)], measures[frame(r)],
                                               results[frame(r)], all_valid[frame(r)])]
    /\ pc' = [pc EXCEPT ![r] = "done"]
    /\ UNCHANGED <<call, measures, time_signature, current_time_signature, i, results, all_valid>>

NextConcurrent ==
    \E r \in Runs :
        \/ RunValidateMeasure(r)
        \/ RunValidateAll(r)
        \/ RunLoopBody(r)
        \/ RunReturnReport(r)

SpecConcurrent == InitConcurrent /\ [][NextConcurrent]_vars

---------------------------------------------------------------------------
(* Properties of parse_duration *)

ParseReturned == pc = "done" /\ call.fn = "parse_duration"

Zero == [num |-> 0, den |-> 1]

\* k times the rational a, in lowest terms
Times(k, a) ==
    LET g == GCD(Abs(k * a.num), a.den)
    IN  [num |-> (k * a.num) \div g, den |-> a.den \div g]

\* the table value of a name, 0 for a name the table does not have
TableValue(name) == IF name \in DOMAIN DURATION_VALUES THEN DURATION_VALUES[name] ELSE Zero

\* C1: parse_duration never fails: for every input it returns a rational
\* beat value and raises no exception.
C1_ParseDurationNeverFails ==
    ParseReturned => ~IsExc(ret) /\ ret.num \in Int /\ ret.den > 0

\* C7: parse_duration of a non-empty list equals parse_duration of its last
\* element alone, whatever the earlier elements are; ["half","sixteenth"]
\* gives 1/4; an empty list gives 0.
C7_ListUsesLastElementOnly ==
    (ParseReturned /\ call.duration_input.type = "list") =>
        LET items == call.duration_input.items
        IN  /\ items = <<>> => ret = Zero
            /\ items # <<>> => ret = parse_duration(items[Len(items)])
            /\ items = <<PyStr(<<"half">>), PyStr(<<"sixteenth">>)>> =>
                   ret = [num |-> 1, den |-> 4]

C7_Witness ==
    /\ ParseReturned
    /\ call.duration_input = PyList(<<PyStr(<<"half">>), PyStr(<<"sixteenth">>)>>)
    /\ ret = [num |-> 1, den |-> 4]

CommaPartLists == UNION {[1..n -> CommaParts] : n \in 2..MaxParts}

RECURSIVE SumOf(_)
SumOf(vals) ==
    IF vals = <<>> THEN Zero
    ELSE LET rest == SumOf(Tail(vals))
             a == Head(vals)
             n == a.num * rest.den + rest.num * a.den
             d == a.den * rest.den
             g == GCD(Abs(n), d)
         IN  [num |-> n \div g, den |-> d \div g]

\* C8: parse_duration of a comma-joined string is the sum of parse_duration
\* of each comma-separated part, each part parsed with the full rule set (a
\* part that raises makes the whole call raise); "2 * eighth, quarter" is 2
\* and "half, sixteenth" is 9/4.
C8_CommaIsSumOfParts ==
    ParseReturned =>
        /\ \A ps \in CommaPartLists :
              call.duration_input = PyStr(JoinComma(ps)) =>
                  LET vals == [k \in 1..Len(ps) |-> parse_duration(PyStr(ps[k]))]
                  IN  IF \E k \in 1..Len(ps) : IsExc(vals[k])
                      THEN IsExc(ret)
                      ELSE ret = SumOf(vals)
        /\ call.duration_input = PyStr(<<"2", " ", "*", " ", "eighth", ",", " ", "quarter">>) =>
              ret = [num |-> 2, den |-> 1]
        /\ call.duration_input = PyStr(<<"half", ",", " ", "sixteenth">>) =>
              ret = [num |-> 9, den |-> 4]

C8_Witness ==
    /\ ParseReturned
    /\ call.duration_input = PyStr(<<"2", " ", "*", " ", "eighth", ",", " ", "quarter">>)
    /\ ret = [num |-> 2, den |-> 1]

StarMultipliers == {-2, 0, 1, 2, 3, 7}

StarBases == {<<"eighth">>, <<"quarter">>, <<"dotted", " ", "quarter">>, <<"unknown">>}

StarString(k, t) == <<ToString(k)>> \o Sp \o <<"*">> \o Sp \o t

\* C9: for every integer k and base token t, parse_duration("k * t") is k
\* times the table value of t (0 when t is not in the table);
\* "3 * eighth" is 3/2.
C9_StarMultiplies ==
    ParseReturned =>
        /\ \A k \in StarMultipliers, t \in StarBases :
              call.duration_input = PyStr(StarString(k, t)) =>
                  ret = Times(k, TableValue(t))
        /\ call.duration_input \in {PyStr(StarString(3, <<"eighth">>)),
                                    PyStr(<<"3", "*", "eighth">>)} =>
              ret = [num |-> 3, den |-> 2]

C9_Witness ==
    /\ ParseReturned
    /\ call.duration_input = PyStr(StarString(3, <<"eighth">>))
    /\ ret = [num |-> 3, den |-> 2]

NumberWords == {t[1] : t \in DOMAIN number_words}

UnitWords ==
    {"eighth", "sixteenth", "eigth", "eigths", "sixteenths", "eighths", "quarter",
     "Eighth", "unknown"}

\* the value of a number word
NumberValue(w) ==
    CASE w = "one" -> 1 [] w = "two" -> 2 [] w = "three" -> 3 [] w = "four" -> 4
      [] w = "five" -> 5 [] w = "six" -> 6 [] w = "seven" -> 7 [] w = "eight" -> 8
      [] w = "nine" -> 9 [] w = "ten" -> 10

\* the unit a unit word is looked up as
NormalizedUnit(u) ==
    CASE LowerWord(u) \in {"eigth", "eigths"} -> <<"eighth">>
      [] LowerWord(u) = "sixteenths" -> <<"sixteenth">>
      [] OTHER -> <<LowerWord(u)>>

\* C10: for every number word w in "one".."ten" with value n and every unit
\* word u, parse_duration("w u") is n times the looked-up value of u, with
\* "eigth"/"eigths" looked up as eighth and "sixteenths" as sixteenth;
\* "seven sixteenth" is 7/4.
C10_NumberWordMultiplies ==
    ParseReturned =>
        /\ \A w \in NumberWords, u \in UnitWords :
              call.duration_input = PyStr(<<w, " ", u>>) =>
                  ret = Times(NumberValue(w), TableValue(NormalizedUnit(u)))
        /\ call.duration_input = PyStr(<<"seven", " ", "sixteenth">>) =>
              ret = [num |-> 7, den |-> 4]

C10_Witness ==
    /\ ParseReturned
    /\ call.duration_input = PyStr(<<"seven", " ", "sixteenths">>)
    /\ ret = [num |-> 7, den |-> 4]

---------------------------------------------------------------------------
(* Properties of validate_measure and validate_all_measures *)

InValidateAll == call.fn = "validate_all_measures"

ValidateAllReturned == pc = "done" /\ InValidateAll

ValidateMeasureReturned == pc = "done" /\ call.fn = "validate_measure"

Succeeded == ~IsExc(ret) /\ "status" \in DOMAIN ret /\ ret.status = "success"

\* the measure results produced so far, by either entry point
MeasureResults ==
    IF ValidateMeasureReturned /\ ~IsExc(ret) THEN {ret}
    ELSE IF InValidateAll THEN {results[k] : k \in 1..Len(results)}
    ELSE {}

IsIntLiteral(part) ==
    LET t == Strip(part)
    IN  Len(t) = 1 /\ \E k \in -MaxInt..MaxInt : ToString(k) = t[1]

\* a "N/D" string of exactly two '/'-separated integers
WellFormedString(v) ==
    /\ v.type = "str"
    /\ Len(Split(v.s, "/")) = 2
    /\ \A k \in 1..2 : IsIntLiteral(Split(v.s, "/")[k])

\* a string that splits into exactly two parts that are not both integers
TwoPartsNotIntegers(v) ==
    /\ v.type = "str"
    /\ Len(Split(v.s, "/")) = 2
    /\ \E k \in 1..2 : ~IsIntLiteral(Split(v.s, "/")[k])

\* a string that does not split into exactly two parts
NotTwoParts(v) == v.type = "str" /\ Len(Split(v.s, "/")) # 2

Malformed(v) == TwoPartsNotIntegers(v) \/ NotTwoParts(v)

\* an explicit signature: a pair, or a well-formed "N/D" string
Explicit(v) == v.type = "dict" \/ WellFormedString(v)

CarriesExplicit(m) == "time_signature" \in DOMAIN m /\ Explicit(m.time_signature)

\* an explicit signature written "N/D"
Written(v) ==
    IF v.type = "dict"
    THEN <<ToString(v.d.numerator), "/", ToString(v.d.denominator)>>
    ELSE LET parts == Split(v.s, "/")
         IN  Strip(parts[1]) \o <<"/">> \o Strip(parts[2])

\* the signature in force for measure k: that of the nearest measure at or
\* before k that carries an explicit one, else the global default
InForce(k) ==
    LET carriers == {j \in 1..k : CarriesExplicit(measures[j])}
    IN  IF carriers = {} THEN Written(time_signature)
        ELSE LET j == CHOOSE c \in carriers : \A o \in carriers : o <= c
             IN  Written(measures[j].time_signature)

\* C2: in validate_all_measures a measure without a time_signature of its own
\* is validated against the explicit signature of the nearest preceding
\* measure that carried one, and against the global default when none did.
C2_CarryForward ==
    InValidateAll =>
        \A k \in 1..Len(results) :
            "time_signature" \notin DOMAIN measures[k] =>
                results[k].time_signature = PyStr(InForce(k))

C2_Witness ==
    /\ ValidateAllReturned /\ Succeeded
    /\ Len(measures) = 3
    /\ "time_signature" \in DOMAIN measures[1]
    /\ measures[1].time_signature = PyDict([numerator |-> 3, denominator |-> 4])
    /\ "time_signature" \notin DOMAIN measures[2]
    /\ "time_signature" \notin DOMAIN measures[3]
    /\ "time_signature" \notin DOMAIN call.music_data
    /\ ret.measure_results[3].time_signature = PyStr(<<"3", "/", "4">>)
    /\ ret.measure_results[3].expected_duration.nearest = [num |-> 3, den |-> 1]

\* the exact total of a voice: the rational its reported duration renders
ExactValue(float) == float.nearest

\* |a - b| <= 1/1000 on rationals, in integers
WithinOneThousandth(a, b) ==
    1000 * Abs(a.num * b.den - b.num * a.den) <= a.den * b.den

\* |a - b| as a rational in lowest terms
AbsDifference(a, b) ==
    LET n == Abs(a.num * b.den - b.num * a.den)
        d == a.den * b.den
        g == GCD(n, d)
    IN  [num |-> n \div g, den |-> d \div g]

\* C3: a voice is valid exactly when |voice total - expected| <= 1/1000 on
\* the exact rationals (an error of exactly 1/1000 is valid); the reported
\* error is that absolute difference and is never negative.
C3_ToleranceBoundary ==
    \A r \in MeasureResults :
        LET expected == ExactValue(r.expected_duration)
            right == ExactValue(r.right_hand_duration)
            left == ExactValue(r.left_hand_duration)
        IN  /\ r.right_hand_valid <=> WithinOneThousandth(right, expected)
            /\ r.left_hand_valid <=> WithinOneThousandth(left, expected)
            /\ ExactValue(r.right_hand_error) = AbsDifference(right, expected)
            /\ ExactValue(r.left_hand_error) = AbsDifference(left, expected)
            /\ ExactValue(r.right_hand_error).num >= 0
            /\ ExactValue(r.left_hand_error).num >= 0

C3_Witness ==
    /\ ValidateMeasureReturned /\ ~IsExc(ret)
    /\ ExactValue(ret.right_hand_error) = [num |-> 1, den |-> 1000]
    /\ ret.right_hand_valid
    /\ ExactValue(ret.left_hand_error) = [num |-> 1001, den |-> 1000]
    /\ ~ret.left_hand_valid

IsErrorOutcome(r) == IsExc(r) \/ ("status" \in DOMAIN r /\ r.status = "error")

CarriedInto(k) ==
    IF k = 1 THEN PyStr(Written(time_signature)) ELSE results[k - 1].time_signature

C5_EmptyScoreIsErrorResult ==
    (ValidateAllReturned /\ Get(call.music_data, "measures", <<>>) = <<>>) =>
        /\ ~IsExc(ret)
        /\ DOMAIN ret = {"status", "error_message"}
        /\ ret.status = "error"

\* C6: in every successful report the counts add up, all_valid is
\* (invalid_measures = 0) and the AND of both_valid, both_valid is the AND of
\* the two voice flags, and the per-voice counts count the voice flags.
C6_ReportConsistent ==
    (ValidateAllReturned /\ Succeeded) =>
        LET rs == ret.measure_results
            Count(P(_)) == Cardinality({k \in 1..Len(rs) : P(rs[k])})
        IN  /\ ret.valid_measures + ret.invalid_measures = ret.total_measures
            /\ ret.total_measures = Len(call.music_data.measures)
            /\ ret.all_valid <=> (ret.invalid_measures = 0)
            /\ ret.all_valid <=> \A k \in 1..Len(rs) : rs[k].both_valid
            /\ \A k \in 1..Len(rs) :
                  rs[k].both_valid <=> (rs[k].right_hand_valid /\ rs[k].left_hand_valid)
            /\ ret.summary.right_hand_valid_count = Count(LAMBDA r : r.right_hand_valid)
            /\ ret.summary.left_hand_valid_count = Count(LAMBDA r : r.left_hand_valid)
            /\ ret.valid_measures <= ret.summary.right_hand_valid_count
            /\ ret.valid_measures <= ret.summary.left_hand_valid_count

C6_Witness ==
    /\ ValidateAllReturned /\ Succeeded
    /\ ret.total_measures = 3
    /\ ret.valid_measures = 1
    /\ ret.invalid_measures = 2
    /\ ~ret.all_valid
    /\ ret.summary.right_hand_valid_count = 2
    /\ ret.summary.left_hand_valid_count = 1

---------------------------------------------------------------------------
(* The duration table *)

BaseNames == {"whole", "half", "quarter", "eighth", "sixteenth", "thirty_second", "rest"}

\* the beat value the table is said to give an undotted name
BaseValue(name) ==
    CASE name = "whole" -> [num |-> 4, den |-> 1]
      [] name = "half" -> [num |-> 2, den |-> 1]
      [] name = "quarter" -> [num |-> 1, den |-> 1]
      [] name = "eighth" -> [num |-> 1, den |-> 2]
      [] name = "sixteenth" -> [num |-> 1, den |-> 4]
      [] name = "thirty_second" -> [num |-> 1, den |-> 8]
      [] name = "rest" -> [num |-> 0, den |-> 1]

\* 3/2 times a rational, in lowest terms
ThreeHalves(a) ==
    LET g == GCD(3 * a.num, 2 * a.den)
    IN  IF a.num = 0 THEN Zero ELSE [num |-> (3 * a.num) \div g, den |-> (2 * a.den) \div g]

\* the undotted names that have a dotted entry in the table
DottedNames == {"whole", "half", "quarter", "eighth", "sixteenth"}

\* the names the table has
KnownNames ==
    {<<n>> : n \in BaseNames} \cup {<<"dotted", " ", n>> : n \in DottedNames} \cup
    {<<"eigth">>, <<"eigths">>}

---------------------------------------------------------------------------
(* Case-insensitivity *)

\* a duration input with every string in it written in lower case
RECURSIVE LowerCased(_)
LowerCased(x) ==
    IF x.type = "str" THEN PyStr([k \in 1..Len(x.s) |-> LowerWord(x.s[k])])
    ELSE IF x.type = "list"
    THEN PyList([k \in 1..Len(x.items) |-> LowerCased(x.items[k])])
    ELSE x

\* C12: every upper/lower-case variant of a duration expression (simple,
\* comma, '*', number-word, inside a list) parses to the value of its
\* lower-case form; parse("QUARTER") = parse("quarter") = 1.
C12_CaseInsensitive ==
    ParseReturned =>
        /\ ret = parse_duration(LowerCased(call.duration_input))
        /\ call.duration_input \in {PyStr(<<"QUARTER">>), PyStr(<<"quarter">>)} =>
              ret = [num |-> 1, den |-> 1]

C12_Witness ==
    /\ ParseReturned
    /\ call.duration_input = PyStr(<<"HALF", ",", " ", "Quarter">>)
    /\ LowerCased(call.duration_input) # call.duration_input
    /\ ret = [num |-> 3, den |-> 1]

---------------------------------------------------------------------------
(* Sign of durations *)

\* C13: the value returned by parse_duration is a non-negative rational for
\* every input, so every voice total reported by validate_measure is
\* non-negative.
C13_DurationsNonNegative ==
    /\ (ParseReturned /\ ~IsExc(ret)) => ret.num >= 0
    /\ \A r \in MeasureResults :
          /\ ExactValue(r.right_hand_duration).num >= 0
          /\ ExactValue(r.left_hand_duration).num >= 0

---------------------------------------------------------------------------
(* Expected duration *)

\* the numerators and denominators of the signatures of the model
SignatureNumbers == {1, 2, 3, 4, 5, 6, 8, 9, 16, 32, 2000, 2001, 4000, 4001}

\* n/d in lowest terms, for positive n and d
Ratio(n, d) == [num |-> n \div GCD(n, d), den |-> d \div GCD(n, d)]

RenderedAs(r, numerator, denominator) ==
    r.time_signature = PyStr(<<ToString(numerator), "/", ToString(denominator)>>)

\* the rendered signature begins with the numerator
HasNumerator(r, numerator) == r.time_signature.s[1] = ToString(numerator)

\* C14: for every effective signature N/D with positive integers the expected
\* duration is exactly N * 4 / D beats (3/4 -> 3, 2/4 -> 2, 6/8 -> 3,
\* 4/4 -> 4) and the result renders the signature as "N/D".
C14_ExpectedDuration ==
    \A r \in MeasureResults :
        /\ \E n \in SignatureNumbers :
              HasNumerator(r, n) /\ \E d \in SignatureNumbers : RenderedAs(r, n, d)
        /\ \A n \in SignatureNumbers :
              HasNumerator(r, n) =>
                  \A d \in SignatureNumbers :
                      RenderedAs(r, n, d) => ExactValue(r.expected_duration) = Ratio(4 * n, d)
        /\ RenderedAs(r, 3, 4) => ExactValue(r.expected_duration) = [num |-> 3, den |-> 1]
        /\ RenderedAs(r, 2, 4) => ExactValue(r.expected_duration) = [num |-> 2, den |-> 1]
        /\ RenderedAs(r, 6, 8) => ExactValue(r.expected_duration) = [num |-> 3, den |-> 1]
        /\ RenderedAs(r, 4, 4) => ExactValue(r.expected_duration) = [num |-> 4, den |-> 1]

C14_Witness ==
    /\ ValidateMeasureReturned /\ ~IsExc(ret)
    /\ "time_signature" \in DOMAIN call.measure
    /\ call.measure.time_signature = PyStr(<<"6", "/", "8">>)
    /\ RenderedAs(ret, 6, 8)
    /\ ret.expected_duration = Float([num |-> 3, den |-> 1])

---------------------------------------------------------------------------
(* Voice totals *)

\* measure.get(hand, [])
Voice(m, hand) == Get(m, hand, <<>>)

\* each measure result produced so far, paired with its measure
MeasureResultPairs ==
    IF ValidateMeasureReturned /\ ~IsExc(ret) THEN {<<call.measure, ret>>}
    ELSE IF InValidateAll THEN {<<measures[k], results[k]>> : k \in 1..Len(results)}
    ELSE {}

\* the parsed durations of the events of a voice, in order
EventValues(events) ==
    [k \in 1..Len(events) |->
        parse_duration(Get(events[k], "duration", PyStr(<<"quarter">>)))]

IntegerValue(k) == [num |-> k, den |-> 1]

\* C15: a voice's reported duration is the exact sum of parse_duration over
\* its events; a voice of k "quarter" events has duration k, and in an N/4
\* measure error |k - N| and is valid exactly when k = N.
C15_VoiceTotalIsExactSum ==
    \A p \in MeasureResultPairs :
        LET m == p[1]
            r == p[2]
        IN  /\ ExactValue(r.right_hand_duration) = SumOf(EventValues(Voice(m, "right_hand")))
            /\ ExactValue(r.left_hand_duration) = SumOf(EventValues(Voice(m, "left_hand")))
            /\ \A k \in 0..MaxEvents, n \in {2, 3, 4} :
                  (Voice(m, "right_hand") = Quarters(k) /\ RenderedAs(r, n, 4)) =>
                      /\ r.right_hand_duration = Float(IntegerValue(k))
                      /\ r.right_hand_error = Float(IntegerValue(Abs(k - n)))
                      /\ r.right_hand_valid <=> (k = n)

C15_Witness ==
    /\ ValidateMeasureReturned /\ ~IsExc(ret)
    /\ Voice(call.measure, "right_hand") = Quarters(3)
    /\ RenderedAs(ret, 4, 4)
    /\ ret.right_hand_duration = Float(IntegerValue(3))
    /\ ret.right_hand_error = Float(IntegerValue(1))
    /\ ~ret.right_hand_valid

---------------------------------------------------------------------------
(* Pitches *)

NoteLists == {<<"C4">>, <<"C4", "E4", "G4">>, <<"Rest">>}

WithNotes(events, notes) == [k \in 1..Len(events) |-> [events[k] EXCEPT !.notes = notes]]

\* the measure with the pitches of every event replaced
ReplaceNotes(m, notes) ==
    [key \in DOMAIN m |->
        IF key \in {"right_hand", "left_hand"} THEN WithNotes(m[key], notes) ELSE m[key]]

\* C16: the result of a measure does not depend on the pitches of its
\* events: replacing every "notes" list (one pitch, a chord, "Rest") gives the
\* same result, and a chord contributes its duration once.
C16_PitchIndependent ==
    ValidateMeasureReturned =>
        /\ \A notes \in NoteLists :
              validate_measure(ReplaceNotes(call.measure, notes), call.time_signature) = ret
        /\ (Voice(call.measure, "right_hand") = ChordVoice /\ ~IsExc(ret)) =>
              ret.right_hand_duration = Float(IntegerValue(4))

C16_Witness ==
    /\ ValidateMeasureReturned /\ ~IsExc(ret)
    /\ Voice(call.measure, "right_hand") = ChordVoice
    /\ Voice(call.measure, "left_hand") = RestVoice
    /\ RenderedAs(ret, 4, 4)
    /\ ret.right_hand_duration = Float(IntegerValue(4))
    /\ ret.left_hand_duration = Float(IntegerValue(4))
    /\ ret.both_valid

---------------------------------------------------------------------------
(* The global signature of the report *)

FourFour == PyStr(<<"4", "/", "4">>)

HasOverride(ms) ==
    \E k \in 1..Len(ms) :
        "time_signature" \in DOMAIN ms[k] /\ Explicit(ms[k].time_signature)

\* C17: with no global time_signature the fold starts from 4/4; in every
\* successful report the top-level time_signature is the global default
\* rendered "N/D" ("4/4" when absent), whatever the measures override.
C17_ReportSignatureIsGlobal ==
    InValidateAll =>
        /\ "time_signature" \notin DOMAIN call.music_data =>
              /\ (pc = "loop" /\ i = 0) => current_time_signature = DefaultTimeSignature
              /\ (Len(results) >= 1 /\ "time_signature" \notin DOMAIN measures[1]) =>
                    results[1].time_signature = FourFour
              /\ (pc = "done" /\ Succeeded) => ret.time_signature = FourFour
        /\ ("time_signature" \in DOMAIN call.music_data
               /\ Explicit(call.music_data.time_signature)
               /\ pc = "done" /\ Succeeded) =>
              ret.time_signature = PyStr(Written(call.music_data.time_signature))

C17_Witness ==
    /\ ValidateAllReturned /\ Succeeded
    /\ "time_signature" \notin DOMAIN call.music_data
    /\ HasOverride(measures)
    /\ current_time_signature # DefaultTimeSignature
    /\ ret.time_signature = FourFour

---------------------------------------------------------------------------
(* Order of the results *)

\* C18: measure_results holds exactly one result per input measure, in the
\* order supplied (never re-sorted by id); the i-th result's measure_id is
\* the id of the i-th input measure.
C18_ResultsInInputOrder ==
    /\ InValidateAll =>
          \A k \in 1..Len(results) : results[k].measure_id = measures[k].id
    /\ (ValidateAllReturned /\ Succeeded) =>
          /\ Len(ret.measure_results) = Len(call.music_data.measures)
          /\ \A k \in 1..Len(ret.measure_results) :
                /\ ret.measure_results[k].measure_id = call.music_data.measures[k].id
                /\ ExactValue(ret.measure_results[k].right_hand_duration) =
                       SumOf(EventValues(call.music_data.measures[k].right_hand))

C18_Witness ==
    /\ ValidateAllReturned /\ Succeeded
    /\ Len(ret.measure_results) = 3
    /\ call.music_data.measures[1].id = 3
    /\ [k \in 1..3 |-> ret.measure_results[k].measure_id] = <<3, 2, 1>>
    /\ call.music_data.measures[1].right_hand # call.music_data.measures[3].right_hand

---------------------------------------------------------------------------
(* Unrecognized tokens *)

HasTokenVoice(m) == \E t \in UnrecognizedTokens : m.right_hand = TokenVoice(t)

\* C19: an unrecognized duration token in one event never aborts the
\* validation of the score: the report is successful, the event counts 0
\* beats, and the other measures' results are what they are without it.
C19_UnrecognizedTokenDoesNotAbort ==
    (ValidateAllReturned /\ call.music_data \in TokenScores) =>
        /\ Succeeded
        /\ \A k \in 1..Len(ret.measure_results) :
              IF HasTokenVoice(measures[k])
              THEN ret.measure_results[k].right_hand_duration = Float(IntegerValue(4))
              ELSE ret.measure_results[k] = validate_measure(measures[k], DefaultTimeSignature)

---------------------------------------------------------------------------
(* The agent tools *)

ToolReturned == pc = "done" /\ call.fn \in AgentTools

IsStructured(r) ==
    /\ ~IsExc(r)
    /\ "status" \in DOMAIN r
    /\ r.status \in {"success", "error"}
    /\ r.status = "error" => "error_message" \in DOMAIN r

\* what the validator called by the validate_all_measures tool did, read off
\* the state it stopped in: an exception raised or a value returned
ValidatorOutcome ==
    LET music_data == call.music_data
        ts == global_time_signature(music_data)
    IN  IF IsExc(ts) THEN ts
        ELSE IF Get(music_data, "measures", <<>>) = <<>> THEN EmptyScoreError
        ELSE IF i < Len(measures)
        THEN LET current == next_current_time_signature(measures[i + 1], current_time_signature)
             IN  IF IsExc(current) THEN current
                 ELSE validate_measure(measures[i + 1], current)
        ELSE build_report(time_signature, measures, results, all_valid)

\* C20: validate_all_measures and validate_measure_duration of agent_tools
\* never propagate an exception: a failure inside the validator comes back
\* as a result with status "error" and an error_message, and every other
\* outcome is the validator's own result, with status "success" or the
\* empty-score error.
C20_ToolsNeverRaise ==
    ToolReturned =>
        /\ IsStructured(ret)
        /\ call.fn = "agent_tools.validate_all_measures" =>
              IF IsExc(ValidatorOutcome)
              THEN ret = [status |-> "error",
                          error_message |-> str_exception(ValidatorOutcome)]
              ELSE /\ ret = ValidatorOutcome
                   /\ ret.status = "success" \/ ret = EmptyScoreError
        /\ call.fn = "agent_tools.validate_measure_duration" =>
              LET result == validate_measure(call.measure,
                                IF call.time_signature = PyNone
                                THEN DefaultTimeSignature ELSE call.time_signature)
              IN  IF IsExc(result)
                  THEN ret = [status |-> "error", error_message |-> str_exception(result)]
                  ELSE ret.status = "success" /\ ret.valid = result.both_valid

\* the validator raised on the second measure of a score given to the tool
C20_Witness ==
    /\ ToolReturned
    /\ call.fn = "agent_tools.validate_all_measures"
    /\ i = 1
    /\ IsExc(ValidatorOutcome)
    /\ ret.status = "error"
    /\ ret # EmptyScoreError

---------------------------------------------------------------------------
(* Boundary measures *)

KeywordsReturned == pc = "done" /\ call.fn = "validate_measure(**kwargs)"

Flag(kwargs, name) == name \in DOMAIN kwargs /\ kwargs[name]

\* both voices of the measure total k beats
TotalsBeats(m, k) ==
    /\ calculate_measure_duration_events(m.right_hand) = IntegerValue(k)
    /\ calculate_measure_duration_events(m.left_hand) = IntegerValue(k)

\* C21: validate_measure accepts is_first and is_last: flagged is_first=True
\* or is_last=True, a measure whose voices each total 1 beat under 4/4 is
\* both_valid; flagged is_first=False, is_last=False, a measure is valid only
\* with the full 4 beats.
C21_BoundaryFlagsAccepted ==
    (KeywordsReturned /\ DOMAIN call.kwargs \subseteq {"is_first", "is_last"}) =>
        /\ ~IsExc(ret)
        /\ IF Flag(call.kwargs, "is_first") \/ Flag(call.kwargs, "is_last")
           THEN TotalsBeats(call.measure, 1) => ret.both_valid
           ELSE ret.both_valid <=> TotalsBeats(call.measure, 4)

---------------------------------------------------------------------------
(* Empty voices *)

Hands == {"right_hand", "left_hand"}

\* the field of a measure result for one hand: "right_hand_duration", ...
HandField(r, hand, field) ==
    IF hand = "right_hand"
    THEN (CASE field = "duration" -> r.right_hand_duration
            [] field = "error" -> r.right_hand_error
            [] field = "valid" -> r.right_hand_valid)
    ELSE (CASE field = "duration" -> r.left_hand_duration
            [] field = "error" -> r.left_hand_error
            [] field = "valid" -> r.left_hand_valid)

PositiveSignature(ts) ==
    /\ ts.type = "dict"
    /\ DOMAIN ts.d = {"numerator", "denominator"}
    /\ ts.d.numerator > 0
    /\ ts.d.denominator > 0

\* C22: under a signature with positive numerator and denominator the
\* expected duration is nonzero, and an empty or missing voice has duration
\* 0, an error equal to the expected duration, is not valid, and the measure
\* is not both_valid.
C22_EmptyVoiceIsInvalid ==
    /\ (ValidateMeasureReturned /\ ~IsExc(ret)) =>
          LET effective == effective_time_signature(call.measure, call.time_signature)
          IN  PositiveSignature(effective) => ExactValue(ret.expected_duration).num > 0
    /\ \A p \in MeasureResultPairs, hand \in Hands :
          (Voice(p[1], hand) = <<>> /\ ExactValue(p[2].expected_duration).num > 0) =>
              /\ HandField(p[2], hand, "duration") = Float(Zero)
              /\ HandField(p[2], hand, "error") = p[2].expected_duration
              /\ ~HandField(p[2], hand, "valid")
              /\ ~p[2].both_valid

\* a measure without "right_hand" whose left hand is complete
C22_Witness ==
    /\ ValidateMeasureReturned /\ ~IsExc(ret)
    /\ "right_hand" \notin DOMAIN call.measure
    /\ RenderedAs(ret, 4, 4)
    /\ ret.right_hand_duration = Float(Zero)
    /\ ret.right_hand_error = Float(IntegerValue(4))
    /\ ret.left_hand_valid
    /\ ~ret.right_hand_valid
    /\ ~ret.both_valid

---------------------------------------------------------------------------
(* Two-pass validation *)

\* first pass: the signature in force at every measure, a left fold from the
\* global signature over the measures' overrides; it stops at an override
\* that raises
RECURSIVE ResolveSignatures(_, _)
ResolveSignatures(ms, current) ==
    IF ms = <<>> THEN <<>>
    ELSE LET resolved == next_current_time_signature(Head(ms), current)
         IN  IF IsExc(resolved) THEN <<resolved>>
             ELSE <<resolved>> \o ResolveSignatures(Tail(ms), resolved)

\* second pass: the measures validated one by one in the given order of
\* their indices, each result stored at the index of its measure
RECURSIVE SecondPass(_, _, _, _)
SecondPass(ms, resolved, order, rs) ==
    IF order = <<>> THEN rs
    ELSE SecondPass(ms, resolved, Tail(order),
             [rs EXCEPT ![Head(order)] = validate_measure(ms[Head(order)], resolved[Head(order)])])

\* the orders of the second pass: first to last, last to first, and from the
\* middle round
Orders(n) ==
    {[k \in 1..n |-> k], [k \in 1..n |-> n + 1 - k], [k \in 1..n |-> ((k + n \div 2) % n) + 1]}

AllBothValid(rs) == \A k \in 1..Len(rs) : rs[k].both_valid

\* the outcome of the two passes: an exception when a pass raises
TwoPass(ts, ms, order) ==
    LET resolved == ResolveSignatures(ms, ts)
    IN  IF \E k \in 1..Len(resolved) : IsExc(resolved[k]) THEN Exc("raised")
        ELSE LET rs == SecondPass(ms, resolved, order, [k \in 1..Len(ms) |-> PyNone])
             IN  IF \E k \in 1..Len(rs) : IsExc(rs[k]) THEN Exc("raised")
                 ELSE build_report(ts, ms, rs, AllBothValid(rs))

\* C23: the report of the sequential fold is the report of the two passes:
\* all signatures resolved first, then every measure validated independently
\* against its resolved signature, in any order; the fold raises exactly
\* when one of the passes raises.
C23_TwoPassEquivalence ==
    (ValidateAllReturned /\ measures # <<>>) =>
        \A order \in Orders(Len(measures)) :
            LET two == TwoPass(time_signature, measures, order)
            IN  IF IsExc(two) THEN IsExc(ret) ELSE ret = two

\* a report of three measures where the second changes the signature and the
\* third, with none of its own, is validated against the carried one
C23_Witness ==
    /\ ValidateAllReturned /\ Succeeded
    /\ Len(measures) = 3
    /\ "time_signature" \in DOMAIN measures[2]
    /\ "time_signature" \notin DOMAIN measures[3]
    /\ ret.measure_results[3].time_signature # ret.time_signature
    /\ ret = TwoPass(time_signature, measures, [k \in 1..3 |-> 4 - k])

---------------------------------------------------------------------------
(* Concurrent validation *)

\* the outcome of validate_all_measures on a score validated on its own
RunAlone(music_data) ==
    LET ts == global_time_signature(music_data)
        ms == Get(music_data, "measures", <<>>)
    IN  IF IsExc(ts) THEN ts
        ELSE IF ms = <<>> THEN EmptyScoreError
        ELSE TwoPass(ts, ms, [k \in 1..Len(ms) |-> k])

RunDone(r, fn) == pc[r] = "done" /\ call[r].fn = fn

\* C24: validation calls share no mutable state: while a call runs, the
\* measures it reads are those of the score it was given; however the steps
\* of the calls interleave, each call returns what it returns running alone,
\* and calls on the same score return the same report.
C24_NoSharedState ==
    /\ \A r \in Runs :
          /\ pc[r] = "loop" => measures[frame(r)] = call[r].music_data.measures
          /\ RunDone(r, "validate_all_measures") =>
                LET alone == RunAlone(call[r].music_data)
                IN  IF IsExc(alone) THEN IsExc(ret[r]) ELSE ret[r] = alone
          /\ RunDone(r, "validate_measure") =>
                ret[r] = validate_measure(call[r].measure, call[r].time_signature)
    /\ \A r1, r2 \in Runs :
          (RunDone(r1, "validate_all_measures") /\ RunDone(r2, "validate_all_measures")
              /\ call[r1].music_data = call[r2].music_data) => ret[r1] = ret[r2]

\* two calls on different scores, both between their first and their second
\* measure, each holding the result of its own first measure
C24_Witness ==
    /\ pc[1] = "loop" /\ pc[2] = "loop"
    /\ call[1].music_data # call[2].music_data
    /\ i[frame(1)] = 1 /\ i[frame(2)] = 1
    /\ Len(measures[frame(1)]) = 2 /\ Len(measures[frame(2)]) = 2
    /\ results[frame(1)][1].time_signature = PyStr(<<"3", "/", "4">>)
    /\ results[frame(2)][1].time_signature = PyStr(<<"4", "/", "4">>)

---------------------------------------------------------------------------
(* A measure's own signature *)

\* numerator and denominator of an explicit signature
Numbers(v) ==
    IF v.type = "dict" THEN <<v.d.numerator, v.d.denominator>>
    ELSE <<int(Split(v.s, "/")[1]).v, int(Split(v.s, "/")[2]).v>>

\* the result is for the signature v: rendered "N/D", expecting 4 * N / D beats
IsFor(r, v) ==
    /\ r.time_signature = PyStr(Written(v))
    /\ ExactValue(r.expected_duration) = Fraction(4 * Numbers(v)[1], Numbers(v)[2])

\* C25: a measure carrying its own signature, as a pair or as a well-formed
\* "N/D" string, is validated against it and reports it, whatever signature
\* is passed, carried forward or global; a measure with none uses the passed
\* signature, 4/4 when none is passed.
C25_OwnSignatureWins ==
    /\ (ValidateMeasureReturned /\ ~IsExc(ret)) =>
          IF CarriesExplicit(call.measure)
          THEN /\ IsFor(ret, call.measure.time_signature)
               /\ \A ts \in TimeSignatureArgs : validate_measure(call.measure, ts) = ret
          ELSE "time_signature" \notin DOMAIN call.measure =>
                  IsFor(ret, IF call.time_signature = PyNone THEN DefaultTimeSignature
                             ELSE call.time_signature)
    /\ InValidateAll =>
          \A k \in 1..Len(results) :
              CarriesExplicit(measures[k]) => IsFor(results[k], measures[k].time_signature)

\* a measure in "6/8" validated with 3/4 passed
C25_Witness ==
    /\ ValidateMeasureReturned /\ ~IsExc(ret)
    /\ "time_signature" \in DOMAIN call.measure
    /\ call.measure.time_signature = PyStr(<<"6", "/", "8">>)
    /\ call.time_signature = PyDict([numerator |-> 3, denominator |-> 4])
    /\ ret.time_signature = PyStr(<<"6", "/", "8">>)
    /\ ret.expected_duration = Float(IntegerValue(3))

---------------------------------------------------------------------------
(* Plural unit words *)

\* C26: a number word followed by "eighths" is that number times 1/2, the
\* value of the same number word with "eigths" or "eigth";
\* "three eighths" is 3/2.
C26_PluralEighths ==
    ParseReturned =>
        /\ \A w \in NumberWords :
              call.duration_input = PyStr(<<w, " ", "eighths">>) =>
                  /\ ret = Times(NumberValue(w), Fraction(1, 2))
                  /\ ret = parse_duration(PyStr(<<w, " ", "eigths">>))
                  /\ ret = parse_duration(PyStr(<<w, " ", "eigth">>))
        /\ call.duration_input = PyStr(<<"three", " ", "eighths">>) =>
              ret = [num |-> 3, den |-> 2]

---------------------------------------------------------------------------
(* The tolerance under ordinary signatures *)

OrdinaryDenominators == {1, 2, 4, 8, 16, 32}

\* the result is for a signature with an ordinary denominator
HasOrdinaryDenominator(r) ==
    \E d \in OrdinaryDenominators : r.time_signature.s[3] = ToString(d)

IsMultipleOfEighth(a) == 8 % a.den = 0

\* C27: every parsed duration is an integer multiple of 1/8 beat, and under a
\* signature whose denominator is 1, 2, 4, 8, 16 or 32 a voice is valid if
\* and only if its exact total equals the expected duration, that is its
\* error is 0: the tolerance admits no nonzero error.
C27_ToleranceAdmitsOnlyZero ==
    /\ (ParseReturned /\ ~IsExc(ret)) => IsMultipleOfEighth(ret)
    /\ \A p \in MeasureResultPairs, hand \in Hands :
          HasOrdinaryDenominator(p[2]) =>
              /\ IsMultipleOfEighth(ExactValue(HandField(p[2], hand, "duration")))
              /\ HandField(p[2], hand, "valid") <=>
                    (SumOf(EventValues(Voice(p[1], hand))) = ExactValue(p[2].expected_duration))
              /\ HandField(p[2], hand, "valid") <=>
                    (HandField(p[2], hand, "error") = Float(Zero))

\* a measure in 5/32 whose left hand is short by one thirty-second note
C27_Witness ==
    /\ ValidateMeasureReturned /\ ~IsExc(ret)
    /\ RenderedAs(ret, 5, 32)
    /\ ret.right_hand_valid
    /\ ret.right_hand_duration = Float(Fraction(5, 8))
    /\ ~ret.left_hand_valid
    /\ ret.left_hand_error = Float(Fraction(1, 8))

---------------------------------------------------------------------------
(* The running signature and the signature of the results *)

\* inside validate_all_measures, called directly or through the agent tool
InFold ==
    /\ call.fn \in {"validate_all_measures", "agent_tools.validate_all_measures"}
    /\ measures # <<>>

\* the fold's current signature after measure k; 0 is before the first
CurrentAfter(k) ==
    IF k = 0 THEN time_signature ELSE ResolveSignatures(measures, time_signature)[k]

\* an override that is a string not splitting into two parts, or neither a
\* string nor a pair
Unusable(m) ==
    /\ "time_signature" \in DOMAIN m
    /\ m.time_signature # PyNone
    /\ \/ NotTwoParts(m.time_signature)
       \/ m.time_signature.type \notin {"str", "dict"}

\* C28: in validate_all_measures the signature of result i is the rendering
\* of the fold's current signature after measure i, for every measure, and
\* an unusable override leaves the current signature as it was.
C28_ResultAgreesWithFold ==
    InFold =>
        \A k \in 1..Len(results) :
            /\ results[k].time_signature = RenderTimeSignature(CurrentAfter(k))
            /\ Unusable(measures[k]) => CurrentAfter(k) = CurrentAfter(k - 1)

---------------------------------------------------------------------------
(* Events without a duration *)

EmptyDurations == {PyNone, PyStr(<<>>), PyList(<<>>)}

\* the beats an event counts for
Beats(event) ==
    IF "duration" \notin DOMAIN event THEN IntegerValue(1)
    ELSE IF event.duration \in EmptyDurations THEN Zero
    ELSE parse_duration(event.duration)

\* C29: an event with no "duration" field counts as a quarter note, 1 beat,
\* in the total of its voice; an event whose duration is null, the empty
\* string or the empty list counts 0 beats.
C29_MissingDurationIsQuarter ==
    /\ (ParseReturned /\ call.duration_input \in EmptyDurations) => ret = Zero
    /\ \A p \in MeasureResultPairs, hand \in Hands :
          ExactValue(HandField(p[2], hand, "duration")) =
              SumOf([k \in 1..Len(Voice(p[1], hand)) |-> Beats(Voice(p[1], hand)[k])])

\* four events without duration make 4 beats; two half notes among a null,
\* an empty string and an empty list make 4 beats as well
C29_Witness ==
    /\ ValidateMeasureReturned /\ ~IsExc(ret)
    /\ Voice(call.measure, "right_hand") = <<Undated, Undated, Undated, Undated>>
    /\ Len(Voice(call.measure, "left_hand")) = 5
    /\ RenderedAs(ret, 4, 4)
    /\ ret.right_hand_duration = Float(IntegerValue(4))
    /\ ret.left_hand_duration = Float(IntegerValue(4))
    /\ ret.both_valid

---------------------------------------------------------------------------
(* The two multiplicative forms *)

\* C30: for every number word w with value n and every name u of the
\* duration table, two-word names included, parse_duration("w u") equals
\* parse_duration("n * u"), and both are n times the table value of u.
C30_MultiplicativeFormsAgree ==
    ParseReturned =>
        \A w \in NumberWords, u \in DOMAIN DURATION_VALUES :
            call.duration_input = PyStr(<<w>> \o Sp \o u) =>
                /\ ret = parse_duration(PyStr(StarString(NumberValue(w), u)))
                /\ ret = Times(NumberValue(w), DURATION_VALUES[u])

===========================================================================
